---------------------------- MODULE Spec2Model ----------------------------
(***************************************************************************)
(* GraphRAG-Web-Assistant: the bounded same-domain crawler                 *)
(* (src/web_loader.py), the knowledge-graph builder                        *)
(* (src/graph_builder.py) and the hybrid retrieval (src/rag_chain.py) as   *)
(* state machines.                                                         *)
(*                                                                         *)
(* SpecCrawl  : one call of WebLoader.load on a freshly built WebLoader.   *)
(* SpecIngest : one call of GraphBuilder.ingest_documents against a graph  *)
(*              store that starts empty.                                   *)
(* SpecQuery  : one call of hybrid_retrieval (src/rag_chain.py) against a  *)
(*              graph store filled by ingestion.                           *)
(***************************************************************************)
EXTENDS Integers, Sequences, FiniteSets, TLC

VARIABLES
    \* ---- WebLoader (src/web_loader.py) ----
    start_url,      \* self.start_url
    max_depth,      \* self.max_depth
    max_pages,      \* self.max_pages
    visited,        \* self.visited : set of URLs
    queue,          \* load(): local list of (url, depth)
    all_docs,       \* load(): local list of Documents
    load_pc,        \* "idle" | "loop" | "returned" | "raised"
    fetchlog,       \* history: the requests.get calls issued, in order
    \* ---- GraphBuilder (src/graph_builder.py) ----
    documents,      \* ingest_documents(): the list of segments
    seg,            \* number of segments the for loop has finished
    graph,          \* the Neo4j store: [nodes : Seq, edges : Seq]
    ingest_pc,      \* "idle" | "loop" | "done" | "raised"
    seglog,         \* history: per finished segment, what happened to it
    \* ---- GraphRAGChain (src/rag_chain.py) ----
    rag_pc,         \* "idle" | "start" | "returned" | "raised"
    rag_call,       \* history: what the collaborators answered in this call
    rag_context     \* the value hybrid_retrieval returned

crawl_vars  == <<start_url, max_depth, max_pages, visited, queue, all_docs,
                 load_pc, fetchlog>>
ingest_vars == <<documents, seg, graph, ingest_pc, seglog>>
query_vars  == <<rag_pc, rag_call, rag_context>>
vars        == <<crawl_vars, ingest_vars, query_vars>>

(***************************************************************************)
(* Bounds of the model.                                                    *)
(***************************************************************************)
MaxAnchors == 2       \* <a href> tags on one fetched page
MaxDepthBound == 2    \* max_depth is drawn from 0..MaxDepthBound
MaxPagesBound == 3    \* max_pages is drawn from 1..MaxPagesBound

(***************************************************************************)
(* URLs.  A URL is (netloc, path, fragment); the scheme is the same        *)
(* everywhere.  An href is a URL reference: host "" means a relative       *)
(* reference, path "" a same-document reference.                           *)
(***************************************************************************)
Hosts == {"site.test", "other.test"}
Paths == {"/", "/p", "/q"}
Frags == {"", "top"}

Hrefs == [host : {"other.test"}, path : {"/p"}, frag : {""}]
             \cup [host : {""}, path : Paths, frag : {""}]
             \cup [host : {""}, path : {"", "/q"}, frag : {"top"}]

\* urllib.parse.urljoin(base, href)
urljoin(base, href) ==
    IF href.host # ""
    THEN [host |-> href.host, path |-> href.path, frag |-> href.frag]
    ELSE [host |-> base.host,
          path |-> IF href.path = "" THEN base.path ELSE href.path,
          frag |-> href.frag]

\* full_url.split('#')[0]
StripFragment(u) == [u EXCEPT !.frag = ""]

\* urlparse(url).netloc
netloc(u) == u.host

is_same_domain_open(url) == TRUE

\* WebLoader.is_same_domain, with base_domain = urlparse(start_url).netloc
is_same_domain(url) == netloc(url) = netloc(start_url)

(***************************************************************************)
(* What one HTTP GET can answer: an error (network error, timeout, non-2xx *)
(* status through raise_for_status) or a page with its anchors in document *)
(* order.                                                                  *)
(***************************************************************************)
AnchorLists == UNION {[1..n -> Hrefs] : n \in 0..MaxAnchors}

Responses == {[ok |-> FALSE, anchors |-> <<>>]}
                 \cup [ok : {TRUE}, anchors : AnchorLists]

Document(url) == [source |-> url]

\* scrape_page lines 50-58: the links kept from the anchors of a page
PageLinks(url, anchors, vis) ==
    LET full(i) == StripFragment(urljoin(url, anchors[i]))
        resolved == [i \in 1..Len(anchors) |-> full(i)]
        keep(u) == is_same_domain(u) /\ u \notin vis
    IN  SelectSeq(resolved, keep)

\* the number of anchors of a page that lead off the seed's domain
OffDomain(url, anchors) ==
    Cardinality({i \in 1..Len(anchors) :
                    netloc(urljoin(url, anchors[i])) # netloc(start_url)})

scrape_page_no_visited_check(url, vis, resp) ==
    IF Cardinality(vis) >= max_pages
    THEN [visited |-> vis, ret |-> <<>>, get |-> FALSE]
    ELSE LET v1 == vis \cup {url} IN
         IF resp.ok
         THEN [visited |-> v1,
               ret |-> << <<Document(url)>>, PageLinks(url, resp.anchors, v1) >>,
               get |-> TRUE]
         ELSE [visited |-> v1, ret |-> << <<>>, <<>> >>, get |-> TRUE]

scrape_page_marks_links(url, vis, resp) ==
    IF url \in vis \/ Cardinality(vis) >= max_pages
    THEN [visited |-> vis, ret |-> <<>>, get |-> FALSE]
    ELSE LET v1 == vis \cup {url} IN
         IF resp.ok
         THEN LET links == PageLinks(url, resp.anchors, v1) IN
              [visited |-> v1 \cup {links[i] : i \in 1..Len(links)},
               ret |-> << <<Document(url)>>, links >>, get |-> TRUE]
         ELSE [visited |-> v1, ret |-> << <<>>, <<>> >>, get |-> TRUE]

scrape_page_bare_except(url, vis, resp) ==
    IF url \in vis \/ Cardinality(vis) >= max_pages
    THEN [visited |-> vis, ret |-> <<>>, get |-> FALSE]
    ELSE LET v1 == vis \cup {url} IN
         IF resp.ok
         THEN [visited |-> v1,
               ret |-> << <<Document(url)>>, PageLinks(url, resp.anchors, v1) >>,
               get |-> TRUE]
         ELSE [visited |-> v1, ret |-> <<>>, get |-> TRUE]

scrape_page_doc_on_failure(url, vis, resp) ==
    IF url \in vis \/ Cardinality(vis) >= max_pages
    THEN [visited |-> vis, ret |-> <<>>, get |-> FALSE]
    ELSE LET v1 == vis \cup {url} IN
         IF resp.ok
         THEN [visited |-> v1,
               ret |-> << <<Document(url)>>, PageLinks(url, resp.anchors, v1) >>,
               get |-> TRUE]
         ELSE [visited |-> v1, ret |-> << <<Document(url)>>, <<>> >>, get |-> TRUE]

(***************************************************************************)
(* WebLoader.scrape_page(url) with self.visited = vis and the GET answered *)
(* by resp.  ret is the returned value: the one empty list of line 31, or  *)
(* the pair (docs, links) of lines 60 and 64.  get tells whether           *)
(* requests.get was called.                                                *)
(***************************************************************************)
scrape_page(url, vis, resp) ==
    IF url \in vis \/ Cardinality(vis) >= max_pages
    THEN [visited |-> vis, ret |-> <<>>, get |-> FALSE]
    ELSE LET v1 == vis \cup {url} IN
         IF resp.ok
         THEN [visited |-> v1,
               ret |-> << <<Document(url)>>, PageLinks(url, resp.anchors, v1) >>,
               get |-> TRUE]
         ELSE [visited |-> v1, ret |-> << <<>>, <<>> >>, get |-> TRUE]

NewEntries(links, depth, vis) ==
    LET fresh(u) == u \notin vis
        kept == SelectSeq(links, fresh)
    IN  [i \in 1..Len(kept) |-> [url |-> kept[i], depth |-> depth + 1]]

EnqueueLinks_inclusive(links, depth, vis) ==
    IF depth <= max_depth THEN NewEntries(links, depth, vis) ELSE <<>>

\* load lines 83-86: what one iteration appends to the queue
EnqueueLinks(links, depth, vis) ==
    IF depth < max_depth THEN NewEntries(links, depth, vis) ELSE <<>>

\* load line 73: the while condition
LoopGuard == queue # <<>> /\ Cardinality(visited) < max_pages

(***************************************************************************)
(* One iteration of the while loop of load (lines 74-89).  The tuple       *)
(* assignment of line 79 needs a value of length 2: on the empty list of   *)
(* line 31 it raises ValueError, which nothing in load catches.            *)
(***************************************************************************)
LoadIteration(resp) ==
    /\ load_pc = "loop"
    /\ LoopGuard
    /\ LET cur  == Head(queue)
           rest == Tail(queue)
       IN  IF cur.depth > max_depth
           THEN /\ queue' = rest
                /\ UNCHANGED <<visited, all_docs, load_pc, fetchlog>>
           ELSE LET r == scrape_page(cur.url, visited, resp) IN
                /\ visited' = r.visited
                /\ fetchlog' =
                     IF r.get
                     THEN Append(fetchlog,
                                 [url |-> cur.url, depth |-> cur.depth,
                                  ok |-> resp.ok,
                                  offdomain |-> OffDomain(cur.url, resp.anchors),
                                  nlinks |-> IF Len(r.ret) = 2
                                             THEN Len(r.ret[2]) ELSE 0])
                     ELSE fetchlog
                /\ IF Len(r.ret) # 2
                   THEN /\ load_pc' = "raised"
                        /\ queue' = rest
                        /\ all_docs' = all_docs
                   ELSE /\ load_pc' = "loop"
                        /\ all_docs' = all_docs \o r.ret[1]
                        /\ queue' = rest \o EnqueueLinks(r.ret[2], cur.depth,
                                                         r.visited)
    /\ UNCHANGED <<start_url, max_depth, max_pages>>
    /\ UNCHANGED ingest_vars
    /\ UNCHANGED query_vars

\* load line 91: the loop condition is false, all_docs is returned
LoadReturn ==
    /\ load_pc = "loop"
    /\ ~LoopGuard
    /\ load_pc' = "returned"
    /\ UNCHANGED <<start_url, max_depth, max_pages, visited, queue, all_docs,
                   fetchlog>>
    /\ UNCHANGED ingest_vars
    /\ UNCHANGED query_vars

EmptyGraph == [nodes |-> <<>>, edges |-> <<>>]

NoCall == [vector |-> "unused", passages |-> <<>>, entity |-> "unused",
           store |-> "unused", focus |-> <<>>, nrows |-> 0, lines |-> <<>>]

QueryIdle ==
    /\ rag_pc = "idle"
    /\ rag_call = NoCall
    /\ rag_context = <<>>     \* None

IngestIdle ==
    /\ documents = <<>>
    /\ seg = 0
    /\ graph = EmptyGraph
    /\ ingest_pc = "idle"
    /\ seglog = <<>>

\* WebLoader.__init__ followed by the first lines of load (70-71)
InitCrawl ==
    /\ start_url \in [host : Hosts, path : {"/"}, frag : {""}]
    /\ max_depth \in 0..MaxDepthBound
    /\ max_pages \in 1..MaxPagesBound
    /\ visited = {}
    /\ queue = <<[url |-> start_url, depth |-> 0]>>
    /\ all_docs = <<>>
    /\ load_pc = "loop"
    /\ fetchlog = <<>>
    /\ IngestIdle
    /\ QueryIdle

NextCrawl ==
    \/ \E resp \in Responses : LoadIteration(resp)
    \/ LoadReturn

SpecCrawl == InitCrawl /\ [][NextCrawl]_vars

(***************************************************************************)
(* Python strings of the graph builder.  A str is a sequence of            *)
(* one-character strings, so that strip, upper and replace act on it.      *)
(***************************************************************************)
LowerCase == <<"a","b","c","d","e","f","g","h","i","j","k","l","m",
               "n","o","p","q","r","s","t","u","v","w","x","y","z">>
UpperCase == <<"A","B","C","D","E","F","G","H","I","J","K","L","M",
               "N","O","P","Q","R","S","T","U","V","W","X","Y","Z">>
Whitespace == {" ", "\t", "\n"}

IsLower(c) == \E i \in 1..26 : LowerCase[i] = c
IsUpper(c) == \E i \in 1..26 : UpperCase[i] = c

\* str.upper()
str_upper(str) ==
    [i \in 1..Len(str) |->
        IF IsLower(str[i])
        THEN UpperCase[CHOOSE k \in 1..26 : LowerCase[k] = str[i]]
        ELSE str[i]]

\* str.replace(' ', '_')
str_replace(str) ==
    [i \in 1..Len(str) |-> IF str[i] = " " THEN "_" ELSE str[i]]

\* str.strip()
str_strip(str) ==
    LET inner == {i \in 1..Len(str) : str[i] \notin Whitespace}
    IN  IF inner = {} THEN <<>>
        ELSE LET lo == CHOOSE i \in inner : \A j \in inner : i <= j
                 hi == CHOOSE i \in inner : \A j \in inner : j <= i
             IN  SubSeq(str, lo, hi)

\* Optional[...]: None is <<>>, a value v is <<v>>
None == <<>>
Some(v) == <<v>>

truthy_unless_None(target) == target # None

\* Python truthiness of an Optional[str]: None and "" are false
truthy(opt) == opt # None /\ opt[1] # <<>>

\* line 100: rel.description if rel.description else ""
description_or_empty(opt) == IF opt # None /\ opt[1] # "" THEN opt[1] ELSE ""

RelLabel_no_upper(type) == str_replace(type)

\* line 105: rel.type.upper().replace(' ', '_')
RelLabel(type) == str_replace(str_upper(type))

\* What Cypher takes as an unquoted relationship type in [r:TYPE]: a
\* non-empty run of letters and underscores.  Anything else in the
\* interpolated text of line 105 is a syntax error, raised by graph.query.
ValidLabel(label) ==
    /\ label # <<>>
    /\ \A i \in 1..Len(label) :
          IsUpper(label[i]) \/ IsLower(label[i]) \/ label[i] = "_"

(***************************************************************************)
(* The extraction client.  extract_graph_data(text) is the GraphData the   *)
(* language model returns for a segment (temperature 0), or a raised       *)
(* exception.  The segments are named; their extractions are listed here.  *)
(***************************************************************************)
Alice == <<"A","l","i","c","e">>
Acme  == <<"A","c","m","e">>
Bob   == <<"B","o","b">>
works_for == <<"w","o","r","k","s"," ","f","o","r">>
WORKS_FOR == <<"W","O","R","K","S","_","F","O","R">>
owns  == <<"o","w","n","s">>
knows == <<"k","n","o","w","s">>
works_dash_for == <<"w","o","r","k","s","-","f","o","r">>

Node(id, type) == [id |-> id, type |-> type]
Relationship(source, target, type, description) ==
    [source |-> source, target |-> target, type |-> type,
     description |-> description]
GraphData(nodes, relationships) ==
    [raises |-> FALSE, nodes |-> nodes, relationships |-> relationships]
Raises == [raises |-> TRUE, nodes |-> <<>>, relationships |-> <<>>]

Texts == {"T1", "T2", "T3", "T4", "T5"}

extract_graph_data(text) ==
    CASE text = "T1" ->
           GraphData(<<Node(Alice, "Person"), Node(Acme, "Organization")>>,
                     <<Relationship(Alice, Some(Acme), works_for, None)>>)
      [] text = "T2" ->
           GraphData(<<Node(<<" ">> \o Alice \o <<" ">>, "Employee"),
                       Node(Acme \o <<"\n">>, "Organization")>>,
                     <<Relationship(<<" ">> \o Alice, Some(Acme \o <<" ">>),
                                    WORKS_FOR, Some("employer"))>>)
      [] text = "T3" ->
           GraphData(<<Node(Acme, "Company")>>,
                     <<Relationship(Acme, None, owns, None),
                       Relationship(Acme, Some(<<>>), owns, Some("x")),
                       Relationship(Acme, Some(Alice), owns, Some(""))>>)
      [] text = "T4" -> Raises
      [] text = "T5" ->
           GraphData(<<Node(Bob, "Person")>>,
                     <<Relationship(Bob, Some(Alice), knows, Some("friend")),
                       Relationship(Bob, Some(Acme), works_dash_for, None)>>)

(***************************************************************************)
(* The graph store.  nodes and edges are the records of the store in       *)
(* creation order; graph.query runs one Cypher statement of               *)
(* ingest_documents against it.                                            *)
(***************************************************************************)

HasNode(g, id) == \E i \in 1..Len(g.nodes) : g.nodes[i].id = id

MergeNode_no_key(g, id, type) ==
    IF g.nodes = <<>>
    THEN [g EXCEPT !.nodes = <<[id |-> id, type |-> type]>>]
    ELSE [g EXCEPT !.nodes =
             [i \in 1..Len(@) |-> [@[i] EXCEPT !.type = type]]]

MergeNode_create(g, id, type) ==
    [g EXCEPT !.nodes = Append(@, [id |-> id, type |-> type])]

\* lines 86-89: MERGE (n:Entity {id: $id}) SET n.type = $type
MergeNode(g, id, type) ==
    IF HasNode(g, id)
    THEN [g EXCEPT !.nodes =
             [i \in 1..Len(@) |->
                 IF @[i].id = id THEN [@[i] EXCEPT !.type = type] ELSE @[i]]]
    ELSE [g EXCEPT !.nodes = Append(@, [id |-> id, type |-> type])]

SameEdge(e, source, target, label) ==
    e.source = source /\ e.target = target /\ e.type = label

UpsertEdge(g, source, target, label, description) ==
    IF \E i \in 1..Len(g.edges) : SameEdge(g.edges[i], source, target, label)
    THEN [g EXCEPT !.edges =
             [i \in 1..Len(@) |->
                 IF SameEdge(@[i], source, target, label)
                 THEN [@[i] EXCEPT !.description = description]
                 ELSE @[i]]]
    ELSE [g EXCEPT !.edges =
             Append(@, [source |-> source, target |-> target, type |-> label,
                        description |-> description])]

MergeEdge_unmatched(g, source, target, label, description) ==
    UpsertEdge(g, source, target, label, description)

\* lines 102-107: MATCH (s {id: $source}) MATCH (t {id: $target})
\*                MERGE (s)-[r:LABEL]->(t) SET r.description = $description
MergeEdge(g, source, target, label, description) ==
    IF HasNode(g, source) /\ HasNode(g, target)
    THEN UpsertEdge(g, source, target, label, description)
    ELSE g

NodeQuery(id, type) ==
    [kind |-> "node", id |-> id, type |-> type,
     source |-> <<>>, target |-> <<>>, label |-> <<>>, description |-> ""]
EdgeQuery(source, target, label, description) ==
    [kind |-> "edge", id |-> <<>>, type |-> "",
     source |-> source, target |-> target, label |-> label,
     description |-> description]

\* lines 83-89: one query per extracted node, in order
NodeQueries(data) ==
    [i \in 1..Len(data.nodes) |->
        NodeQuery(str_strip(data.nodes[i].id), data.nodes[i].type)]

\* lines 92-115: one query per relationship that has a target, in order
RelQueries(data) ==
    LET kept(rel) == truthy(rel.target)
        rels == SelectSeq(data.relationships, kept)
    IN  [i \in 1..Len(rels) |->
            EdgeQuery(str_strip(rels[i].source),
                      str_strip(rels[i].target[1]),
                      RelLabel(rels[i].type),
                      description_or_empty(rels[i].description))]

\* the graph.query calls of one segment, in the order the code makes them
SegmentQueries(data) == NodeQueries(data) \o RelQueries(data)

\* whether the store rejects the statement itself
QueryRaises(q) == q.kind = "edge" /\ ~ValidLabel(q.label)

\* graph.query(statement, params) when it does not raise
RunQuery(g, q) ==
    IF q.kind = "node"
    THEN MergeNode(g, q.id, q.type)
    ELSE MergeEdge(g, q.source, q.target, q.label, q.description)

(***************************************************************************)
(* The body of the try block (lines 79-116) for one segment.  fault tells  *)
(* what goes wrong from outside: nothing, the extraction call, or the      *)
(* n-th graph.query call (the store is unreachable).  The queries run in   *)
(* order until one raises; what ran before stays in the store.             *)
(***************************************************************************)
NoFault == [at |-> "none", n |-> 0]
Faults(text) ==
    {NoFault, [at |-> "extract", n |-> 0]}
        \cup [at : {"query"},
              n : 1..Len(SegmentQueries(extract_graph_data(text)))]

RECURSIVE RunQueries(_, _, _, _)
RunQueries(g, qs, k, fault) ==
    IF k > Len(qs)
    THEN [graph |-> g, status |-> "ok", ran |-> Len(qs)]
    ELSE IF (fault.at = "query" /\ fault.n = k) \/ QueryRaises(qs[k])
         THEN [graph |-> g, status |-> "store_failed", ran |-> k - 1]
         ELSE RunQueries(RunQuery(g, qs[k]), qs, k + 1, fault)

TrySegment_atomic(g, text, fault) ==
    LET data == extract_graph_data(text)
        r == RunQueries(g, SegmentQueries(data), 1, fault)
    IN  IF fault.at = "extract" \/ data.raises
        THEN [graph |-> g, status |-> "extract_failed", ran |-> 0]
        ELSE IF r.status = "ok" THEN r ELSE [r EXCEPT !.graph = g]

TrySegment(g, text, fault) ==
    LET data == extract_graph_data(text) IN
    IF fault.at = "extract" \/ data.raises
    THEN [graph |-> g, status |-> "extract_failed", ran |-> 0]
    ELSE RunQueries(g, SegmentQueries(data), 1, fault)

except_clause_reraise(status) ==
    IF status = "ok" THEN "continue" ELSE "raise"

\* lines 118-120: except Exception prints and the for loop goes on
except_clause(status) == "continue"

(***************************************************************************)
(* GraphBuilder.ingest_documents                                           *)
(***************************************************************************)
\* lines 77-120 with nothing going wrong from outside: the store after the
\* for loop went through docs[k..], starting from store g
RECURSIVE IngestFrom(_, _, _)
IngestFrom(g, docs, k) ==
    IF k > Len(docs) THEN g
    ELSE IngestFrom(TrySegment(g, docs[k], NoFault).graph, docs, k + 1)

IngestAll(docs) == IngestFrom(EmptyGraph, docs, 1)

MaxSegments == 3      \* segments in one ingest_documents call

DocumentLists == UNION {[1..n -> Texts] : n \in 0..MaxSegments}

\* lines 77-120: one iteration of the for loop
IngestSegment ==
    /\ ingest_pc = "loop"
    /\ seg < Len(documents)
    /\ \E fault \in Faults(documents[seg + 1]) :
          LET r == TrySegment(graph, documents[seg + 1], fault)
          IN  /\ graph' = r.graph
              /\ seglog' = Append(seglog,
                                  [status |-> r.status, ran |-> r.ran])
              /\ IF except_clause(r.status) = "continue"
                 THEN seg' = seg + 1 /\ ingest_pc' = "loop"
                 ELSE seg' = seg /\ ingest_pc' = "raised"
    /\ UNCHANGED documents
    /\ UNCHANGED crawl_vars
    /\ UNCHANGED query_vars

\* line 122: the loop is over, ingest_documents returns
IngestReturn ==
    /\ ingest_pc = "loop"
    /\ seg = Len(documents)
    /\ ingest_pc' = "done"
    /\ UNCHANGED <<documents, seg, graph, seglog>>
    /\ UNCHANGED crawl_vars
    /\ UNCHANGED query_vars

CrawlIdle ==
    /\ start_url = [host |-> "site.test", path |-> "/", frag |-> ""]
    /\ max_depth = 0
    /\ max_pages = 1
    /\ visited = {}
    /\ queue = <<>>
    /\ all_docs = <<>>
    /\ load_pc = "idle"
    /\ fetchlog = <<>>

\* GraphBuilder.__init__ on a new database, then ingest_documents is entered
\* with a list of segments (line 71)
InitIngest ==
    /\ CrawlIdle
    /\ QueryIdle
    /\ documents \in DocumentLists
    /\ seg = 0
    /\ graph = EmptyGraph
    /\ ingest_pc = "loop"
    /\ seglog = <<>>

NextIngest ==
    \/ IngestSegment
    \/ IngestReturn

SpecIngest == InitIngest /\ [][NextIngest]_vars

(***************************************************************************)
(* GraphRAGChain (src/rag_chain.py).                                       *)
(*                                                                         *)
(* hybrid_retrieval asks three collaborators: the vector store for         *)
(* passages, the language model for the focus entity of the query, and the *)
(* graph store for the relationships around the nodes matching it.  What   *)
(* the vector store and the language model answer is an input of the call; *)
(* the traversal is computed from the store.                               *)
(***************************************************************************)

\* toLower(...)
str_lower(str) ==
    [i \in 1..Len(str) |->
        IF IsUpper(str[i])
        THEN LowerCase[CHOOSE k \in 1..26 : UpperCase[k] = str[i]]
        ELSE str[i]]

\* hay CONTAINS needle
Contains(hay, needle) ==
    \E i \in 0..(Len(hay) - Len(needle)) :
        SubSeq(hay, i + 1, i + Len(needle)) = needle

\* "\n".join(lines)
RECURSIVE join(_)
join(lines) ==
    IF lines = <<>> THEN <<>>
    ELSE IF Len(lines) = 1 THEN lines[1]
    ELSE lines[1] \o <<"\n">> \o join(Tail(lines))

\* The graph store is a database shared with whatever else writes to it:
\* lines 78-84 read node properties (price, ...) that ingest_documents never
\* sets.  WithPrice(g) is store g after such a write on the node Acme.
Price == <<"9">>

WithPrice(g) ==
    [g EXCEPT !.nodes =
        [i \in 1..Len(@) |->
            IF @[i].id = Acme
            THEN [id |-> @[i].id, type |-> @[i].type, price |-> Price]
            ELSE @[i]]]

QueryStores ==
    {IngestAll(docs) : docs \in DocumentLists}
        \cup {WithPrice(IngestAll(docs)) : docs \in DocumentLists}

\* line 59: WHERE toLower(start.id) CONTAINS toLower($entity)
StartNodes(g, entity) ==
    {g.nodes[i].id : i \in
        {j \in 1..Len(g.nodes) :
            Contains(str_lower(g.nodes[j].id), str_lower(entity))}}

Touches(e, id) == e.source = id \/ e.target = id
OtherEnd(e, id) == IF e.source = id THEN e.target ELSE e.source

\* line 60: MATCH path = (start)-[r*1..2]-(connected); a path is the indices
\* of its relationships, followed in either direction, none of them twice
TraversalPaths(g, start) ==
    LET E == 1..Len(g.edges)
    IN  {<<e>> : e \in {x \in E : Touches(g.edges[x], start)}}
        \cup {<<p[1], p[2]>> : p \in
                {q \in E \X E :
                    /\ Touches(g.edges[q[1]], start)
                    /\ q[2] # q[1]
                    /\ Touches(g.edges[q[2]],
                               OtherEnd(g.edges[q[1]], start))}}

\* lines 58-66: one row per relationship of each path of each start node
TraversalRows(g, entity) ==
    UNION {UNION {{[start |-> s, path |-> p, k |-> k] : k \in 1..Len(p)} :
                     p \in TraversalPaths(g, s)} :
              s \in StartNodes(g, entity)}

RowLimit == 100

\* line 67: LIMIT 100
ReturnedRowSets(rows) ==
    IF Cardinality(rows) <= RowLimit THEN {rows}
    ELSE {R \in SUBSET rows : Cardinality(R) = RowLimit}

\* lines 63-65: startNode(rel), type(rel), endNode(rel) of the row
RowRel(g, row) == g.edges[row.path[row.k]]

\* line 66: properties(endNode(rel))
NodeById(g, id) == g.nodes[CHOOSE i \in 1..Len(g.nodes) : g.nodes[i].id = id]

\* line 82: the properties other than id and type
clean_props(props) == [k \in DOMAIN props \ {"id", "type"} |-> props[k]]

\* str(clean_props) for the one extra property the stores carry
dict_repr(d) ==
    <<"{", "'", "p", "r", "i", "c", "e", "'", ":", " ", "'">>
        \o d.price \o <<"'", "}">>

Fact_traversal_order(g, row) ==
    LET rel == RowRel(g, row)
        from == IF row.k = 1 THEN row.start
                ELSE OtherEnd(g.edges[row.path[1]], row.start)
    IN  from \o <<" ">> \o rel.type \o <<" ">> \o OtherEnd(rel, from)

\* lines 76-84: the fact line of one row
Fact(g, row) ==
    LET rel == RowRel(g, row)
        fact == rel.source \o <<" ">> \o rel.type \o <<" ">> \o rel.target
        props == clean_props(NodeById(g, rel.target))
    IN  IF DOMAIN props # {}
        THEN fact \o <<" ", "(", "D", "e", "t", "a", "i", "l", "s", ":", " ">>
                  \o dict_repr(props) \o <<")">>
        ELSE fact

\* lines 73-86: context, the fact line of every returned row
Context(g, rows) == [row \in rows |-> Fact(g, row)]

Orderings(S) ==
    {f \in [1..Cardinality(S) -> S] :
        \A i, j \in 1..Cardinality(S) : f[i] = f[j] => i = j}

RECURSIVE SeqOf(_)
SeqOf(S) ==
    IF S = {} THEN <<>>
    ELSE LET x == CHOOSE y \in S : TRUE IN <<x>> \o SeqOf(S \ {x})

list_of_all(context) ==
    {[i \in 1..Len(SeqOf(DOMAIN context)) |->
         context[SeqOf(DOMAIN context)[i]]]}

\* line 88: list(set(context)), in whatever order the set iterates
list_of_set(context) ==
    Orderings({context[row] : row \in DOMAIN context})

graph_error_reraise == [raised |-> TRUE, lines |-> <<>>]

\* lines 90-92: except Exception: return ""
graph_error == [raised |-> FALSE, lines |-> <<>>]

\* line 52: what the entity chain answers, before .strip()
EntityAnswers ==
    {Acme, <<" ">> \o str_lower(Acme) \o <<"\n">>, Bob, <<"A">>,
     <<"Z", "e", "d">>, <<>>, <<" ", "\n">>}

GraphOutcome(entity, store, focus, nrows, raised, lines) ==
    [entity |-> entity, store |-> store, focus |-> focus, nrows |-> nrows,
     raised |-> raised, lines |-> lines]

\* lines 43-92: the ways get_graph_context can end against store g
get_graph_context(g) ==
    \* line 52: the entity chain raises, outside the try
    {GraphOutcome("raised", "unused", <<>>, 0, TRUE, <<>>)}
    \cup UNION {
        LET focus == str_strip(raw) IN
        \* line 71: graph.query raises, inside the try
        {GraphOutcome("ok", "raised", focus, 0,
                      graph_error.raised, graph_error.lines)}
        \cup UNION {
            {GraphOutcome("ok", "ok", focus, Cardinality(rows), FALSE, lines) :
                lines \in list_of_set(Context(g, rows))} :
            rows \in ReturnedRowSets(TraversalRows(g, focus))}
        : raw \in EntityAnswers}

MaxPassages == 2      \* passages the vector store returns
VectorK == 6

Passages == {<<"p", "1">>, <<"p", "2">>}

\* lines 96, 100: the retriever raises or returns at most k passages
VectorAnswers ==
    {[raises |-> TRUE, docs |-> <<>>]}
    \cup {[raises |-> FALSE, docs |-> d] :
            d \in UNION {[1..n -> Passages] :
                            n \in 0..(IF MaxPassages < VectorK
                                      THEN MaxPassages ELSE VectorK)}}

\* lines 108-114: the returned f-string, as its two headings and two fields
Fused(vector_context, graph_context) ==
    <<"--- WEBSITE CONTENT ---", vector_context,
      "--- DATABASE RELATIONSHIPS ---", graph_context>>

\* lines 98-114: one call of hybrid_retrieval
HybridRetrieval ==
    /\ rag_pc = "start"
    /\ \E vec \in VectorAnswers :
          IF vec.raises
          THEN \* line 100 raises; nothing in hybrid_retrieval catches it
               /\ rag_pc' = "raised"
               /\ rag_call' = [NoCall EXCEPT !.vector = "raised"]
               /\ rag_context' = None
          ELSE \E out \in get_graph_context(graph) :
               /\ rag_call' = [vector |-> "ok", passages |-> vec.docs,
                               entity |-> out.entity, store |-> out.store,
                               focus |-> out.focus, nrows |-> out.nrows,
                               lines |-> out.lines]
               /\ IF out.raised
                  THEN rag_pc' = "raised" /\ rag_context' = None
                  ELSE /\ rag_pc' = "returned"
                       /\ rag_context' =
                            Some(Fused(join(vec.docs), join(out.lines)))
    /\ UNCHANGED crawl_vars
    /\ UNCHANGED ingest_vars

\* GraphRAGChain.__init__ against a store filled by ingestion, then the chain
\* of get_chain is invoked with a question
InitQuery ==
    /\ CrawlIdle
    /\ documents = <<>>
    /\ seg = 0
    /\ graph \in QueryStores
    /\ ingest_pc = "idle"
    /\ seglog = <<>>
    /\ rag_pc = "start"
    /\ rag_call = NoCall
    /\ rag_context = None

NextQuery == HybridRetrieval

SpecQuery == InitQuery /\ [][NextQuery]_vars

(***************************************************************************)
(* Crawler properties.                                                     *)
(***************************************************************************)
Last(s) == s[Len(s)]

\* C1: when the URL at the front of the frontier is already visited, load
\* skips it (no fetch, no document, nothing enqueued) and the loop goes on.
C1_VisitedFrontIsSkipped ==
    [][(load_pc = "loop" /\ LoopGuard /\ Head(queue).url \in visited)
          => /\ load_pc' = "loop"
             /\ queue' = Tail(queue)
             /\ visited' = visited
             /\ all_docs' = all_docs
             /\ fetchlog' = fetchlog]_vars

\* C2: the visited set never holds more than max_pages URLs, failed fetches
\* included; so at most max_pages GETs are issued and at most max_pages
\* Documents are collected.
C2_VisitedWithinCap ==
    /\ Cardinality(visited) <= max_pages
    /\ Len(fetchlog) <= max_pages
    /\ Len(all_docs) <= max_pages
    /\ \A i \in 1..Len(fetchlog) : fetchlog[i].url \in visited

\* the cap stopped a crawl that had work left, and a failed fetch counted
C2_CapReached ==
    /\ load_pc = "returned"
    /\ max_pages >= 2
    /\ Cardinality(visited) = max_pages
    /\ queue # <<>>
    /\ \E i \in 1..Len(fetchlog) : ~fetchlog[i].ok

\* C3: no page is fetched and no frontier entry is held at a depth above
\* max_depth; the seed is at depth 0, an iteration enqueues at depth+1 only,
\* and an iteration on a page at depth max_depth enqueues nothing.
C3_DepthBounded ==
    /\ [](/\ \A i \in 1..Len(queue) : queue[i].depth <= max_depth
          /\ \A i \in 1..Len(fetchlog) : fetchlog[i].depth <= max_depth
          /\ fetchlog # <<>> => fetchlog[1].depth = 0)
    /\ [][(load_pc = "loop" /\ load_pc' = "loop" /\ queue' # queue)
             => LET d == Head(queue).depth
                    n == Len(queue)
                IN  /\ Len(queue') >= n - 1
                    /\ \A i \in n..Len(queue') : queue'[i].depth = d + 1
                    /\ d >= max_depth => queue' = Tail(queue)]_vars

\* a page at depth max_depth >= 1 was fetched and its new links were dropped
C3_LinksAtMaxDepthDropped ==
    /\ load_pc = "returned"
    /\ max_depth >= 1
    /\ \E i \in 1..Len(fetchlog) :
          fetchlog[i].depth = max_depth /\ fetchlog[i].nlinks > 0

\* C4: every collected Document, every fetched URL and every frontier entry
\* has the seed's host.
C4_SameDomainOnly ==
    /\ \A i \in 1..Len(all_docs) : netloc(all_docs[i].source) = netloc(start_url)
    /\ \A i \in 1..Len(fetchlog) : netloc(fetchlog[i].url) = netloc(start_url)
    /\ \A i \in 1..Len(queue) : netloc(queue[i].url) = netloc(start_url)

\* a fetched page carried an off-domain anchor and the crawl went on to
\* collect a second Document
C4_OffDomainLinkSeen ==
    /\ Len(all_docs) >= 2
    /\ \E i \in 1..Len(fetchlog) : fetchlog[i].offdomain > 0

\* C10: an iteration whose GET fails marks the URL visited, adds no Document
\* and no frontier entry, and leaves the loop running.
C10_FailedFetchIsolated ==
    [][(Len(fetchlog') = Len(fetchlog) + 1 /\ ~Last(fetchlog').ok)
          => /\ visited' = visited \cup {Head(queue).url}
             /\ all_docs' = all_docs
             /\ queue' = Tail(queue)
             /\ load_pc' = "loop"]_vars

\* a success, then a failure, then another success: both Documents are kept
C10_FetchAfterFailure ==
    /\ Len(fetchlog) = 3
    /\ fetchlog[1].ok /\ ~fetchlog[2].ok /\ fetchlog[3].ok
    /\ Len(all_docs) = 2
    /\ all_docs[1].source = fetchlog[1].url
    /\ all_docs[2].source = fetchlog[3].url

\* C11 as claimed: load always stops by returning its document list, and it
\* returns exactly when the frontier is empty or the visited set has reached
\* max_pages.
C11_LoadStopsByReturning ==
    /\ load_pc \in {"loop", "returned"}
    /\ load_pc = "returned" =>
          (queue = <<>> \/ Cardinality(visited) >= max_pages)

OkFetches == LET ok(e) == e.ok IN SelectSeq(fetchlog, ok)

\* C17: the list load hands back holds one Document per successful GET and
\* none for a failed one, in the order of the GETs, and the GETs go by
\* non-decreasing depth; a seed fetched successfully that yields no link to
\* follow gives one Document and a visited set of size 1.
C17_DocsInFetchOrder ==
    /\ all_docs = [i \in 1..Len(OkFetches) |-> Document(OkFetches[i].url)]
    /\ \A i, j \in 1..Len(fetchlog) :
          i < j => fetchlog[i].depth <= fetchlog[j].depth
    /\ (/\ load_pc = "returned"
        /\ fetchlog # <<>>
        /\ fetchlog[1].ok
        /\ fetchlog[1].nlinks = 0)
          => Len(all_docs) = 1 /\ Cardinality(visited) = 1

\* load returned after GETs at depths 0, 1 and 2, the last of which failed
C17_ThreeLevelsOneFailure ==
    /\ load_pc = "returned"
    /\ Len(fetchlog) = 3
    /\ fetchlog[2].depth = 1
    /\ fetchlog[3].depth = 2
    /\ ~fetchlog[3].ok
    /\ Len(all_docs) = 2

\* C20 as claimed: every URL in the frontier is a member of the visited set.
C20_FrontierInVisited ==
    \A i \in 1..Len(queue) : queue[i].url \in visited

\* C20 as amended: the visited set is exactly the set of URLs a GET was
\* issued for, and a URL is not in it when it is put in the frontier.
C20_VisitedIsFetched ==
    /\ [](visited = {fetchlog[i].url : i \in 1..Len(fetchlog)})
    /\ [][(load_pc = "loop" /\ load_pc' = "loop")
             => \A i \in Len(queue)..Len(queue') : queue'[i].url \notin visited']_vars

\* after a GET the frontier holds a URL that is not visited
C20_UnvisitedInFrontier ==
    /\ load_pc = "loop"
    /\ fetchlog # <<>>
    /\ \E i \in 1..Len(queue) : queue[i].url \notin visited

\* C21: within one call of load no URL is fetched (requests.get called) more
\* than once, however many times it was put in the frontier.
C21_NoDoubleFetch ==
    \A i, j \in 1..Len(fetchlog) :
        fetchlog[i].url = fetchlog[j].url => i = j

\* the seed page linked the same URL twice; it was fetched once, and its
\* second copy was taken from the frontier without a GET
C21_DuplicateDequeued ==
    /\ load_pc = "raised"
    /\ Len(fetchlog) = 2
    /\ fetchlog[1].nlinks = 2
    /\ fetchlog[2].url # fetchlog[1].url
    /\ Cardinality(visited) = 2

(***************************************************************************)
(* Graph builder properties.                                               *)
(***************************************************************************)
NodeSet(g) == {g.nodes[i] : i \in 1..Len(g.nodes)}
EdgeSet(g) == {g.edges[i] : i \in 1..Len(g.edges)}
NodeIdSet(g) == {n.id : n \in NodeSet(g)}
EdgeTripleSet(g) == {<<e.source, e.target, e.type>> : e \in EdgeSet(g)}

Range(s) == {s[i] : i \in 1..Len(s)}
ExtractedNodes(k) == Range(extract_graph_data(documents[k]).nodes)
ExtractedRels(k) == Range(extract_graph_data(documents[k]).relationships)
HasTarget(rel) == rel.target # None /\ rel.target[1] # <<>>
TrimmedIds(k) == {str_strip(n.id) : n \in ExtractedNodes(k)}
Triple(rel) ==
    <<str_strip(rel.source), str_strip(rel.target[1]),
      str_replace(str_upper(rel.type))>>
AllOk == \A k \in 1..Len(seglog) : seglog[k].status = "ok"

\* segment k is in the store: its nodes, and its relationships between them
Merged(k) ==
    /\ TrimmedIds(k) \subseteq NodeIdSet(graph)
    /\ \A rel \in ExtractedRels(k) :
          (/\ HasTarget(rel)
           /\ Triple(rel)[1] \in TrimmedIds(k)
           /\ Triple(rel)[2] \in TrimmedIds(k))
             => Triple(rel) \in EdgeTripleSet(graph)

\* C5: a segment whose extraction raises does not stop ingest_documents:
\* the call returns normally having gone through every segment, and every
\* segment that did not fail, before or after the failing one, is merged.
C5_FailureIsolation ==
    /\ ingest_pc # "raised"
    /\ \A k \in 1..Len(seglog) :
          seglog[k].status = "extract_failed" => seglog[k].ran = 0
    /\ ingest_pc = "done" =>
          /\ Len(seglog) = Len(documents)
          /\ \A j \in 1..Len(documents) : seglog[j].status = "ok" => Merged(j)

\* the extraction of segment 2 of 3 failed; segments 1 and 3 are in the store
C5_MiddleSegmentFailed ==
    /\ ingest_pc = "done"
    /\ documents = <<"T1", "T2", "T3">>
    /\ seglog[1].status = "ok"
    /\ seglog[2].status = "extract_failed"
    /\ seglog[3].status = "ok"
    /\ NodeSet(graph) = {Node(Alice, "Person"), Node(Acme, "Company")}
    /\ EdgeTripleSet(graph) = {<<Alice, Acme, WORKS_FOR>>,
                               <<Acme, Alice, <<"O","W","N","S">> >>}

NoDuplicates(g) ==
    /\ \A i, j \in 1..Len(g.nodes) : g.nodes[i].id = g.nodes[j].id => i = j
    /\ \A i, j \in 1..Len(g.edges) :
          SameEdge(g.edges[i], g.edges[j].source, g.edges[j].target,
                   g.edges[j].type) => i = j

\* C6: the store never holds two nodes of one id nor two edges of one
\* (source, target, type), and ingesting a segment again right after it was
\* ingested (no faults) changes neither the nodes with their types nor the
\* edges with their descriptions.
C6_IdempotentMerge ==
    /\ [](NoDuplicates(graph))
    /\ [][(/\ seg >= 1
           /\ seg' = seg + 1
           /\ documents[seg + 1] = documents[seg]
           /\ seglog[seg].status = "ok"
           /\ seglog'[seg + 1].status = "ok")
             => /\ NodeSet(graph') = NodeSet(graph)
                /\ EdgeSet(graph') = EdgeSet(graph)
                /\ Len(graph'.nodes) = Len(graph.nodes)
                /\ Len(graph'.edges) = Len(graph.edges)]_vars

\* a segment was ingested twice on top of a store it first had to change
C6_IngestedTwice ==
    /\ seg = 3
    /\ documents = <<"T2", "T1", "T1">>
    /\ AllOk
    /\ NodeSet(graph) = {Node(Alice, "Person"), Node(Acme, "Organization")}
    /\ EdgeSet(graph) = {[source |-> Alice, target |-> Acme,
                          type |-> WORKS_FOR, description |-> ""]}

AllTrimmedIds == UNION {TrimmedIds(k) : k \in 1..Len(documents)}
AllTriples ==
    UNION {{Triple(rel) : rel \in {r \in ExtractedRels(k) : HasTarget(r)}} :
              k \in 1..Len(documents)}
IdsUpTo(k) == UNION {TrimmedIds(j) : j \in 1..k}
StorableTriples ==
    UNION {{Triple(rel) :
               rel \in {r \in ExtractedRels(k) :
                           /\ HasTarget(r)
                           /\ Triple(r)[1] \in IdsUpTo(k)
                           /\ Triple(r)[2] \in IdsUpTo(k)}} :
              k \in 1..Len(documents)}

\* C7 as claimed: after a fault-free ingest into an empty store the nodes
\* are the distinct trimmed ids of all extracted nodes and the edges are the
\* distinct triples of all extracted relationships that have a target.
C7_EveryTargetedRelStored ==
    (ingest_pc = "done" /\ AllOk)
       => /\ NodeIdSet(graph) = AllTrimmedIds
          /\ EdgeTripleSet(graph) = AllTriples

\* C7 as amended: after a fault-free ingest into an empty store the nodes
\* are the distinct trimmed ids of all extracted nodes, and the edges are the
\* distinct triples of the extracted relationships that have a target and
\* whose trimmed source and target are ids of nodes extracted in the same or
\* an earlier segment.
C7_EdgesBetweenStoredNodes ==
    (ingest_pc = "done" /\ AllOk)
       => /\ NodeIdSet(graph) = AllTrimmedIds
          /\ EdgeTripleSet(graph) = StorableTriples
          /\ NoDuplicates(graph)

\* a fault-free ingest stored one relationship and left out another whose
\* endpoint was not a node yet
C7_RelWithUnknownEndpoint ==
    /\ ingest_pc = "done"
    /\ AllOk
    /\ Len(documents) >= 2
    /\ EdgeTripleSet(graph) # {}
    /\ EdgeTripleSet(graph) # AllTriples

\* C8: a relationship whose target is None or "" issues no query and stores
\* no edge, and the relationships after it are still processed: the queries
\* of a fault-free segment are one per node and one per relationship that
\* has a target, and every stored edge comes from such a relationship.
C8_NoTargetNoEdge ==
    /\ \A k \in 1..Len(seglog) :
          LET data == extract_graph_data(documents[k])
              n == Len(data.nodes)
                     + Cardinality({i \in 1..Len(data.relationships) :
                                       HasTarget(data.relationships[i])})
          IN  /\ seglog[k].ran <= n
              /\ seglog[k].status = "ok" => seglog[k].ran = n
    /\ \A e \in EdgeSet(graph) :
          \E k \in 1..Len(seglog) : \E rel \in ExtractedRels(k) :
              HasTarget(rel) /\ Triple(rel) = <<e.source, e.target, e.type>>

\* a segment with a None target and a "" target before a valid relationship
\* was ingested: two queries ran, and the valid relationship is stored
C8_TargetlessRelsSkipped ==
    /\ seg = 2
    /\ documents = <<"T1", "T3">>
    /\ AllOk
    /\ seglog[2].ran = 2
    /\ <<Acme, Alice, <<"O","W","N","S">> >> \in EdgeTripleSet(graph)
    /\ Len(graph.edges) = 2

\* C9: every stored edge type is an extracted type upper-cased with spaces
\* replaced by underscores, so it holds no lowercase letter and no space;
\* ingesting Alice, Acme and (Alice, Acme, "works for") into the empty store
\* without a store fault leaves two nodes and the single edge
\* Alice WORKS_FOR Acme.
C9_EdgeTypeNormalised ==
    /\ \A e \in EdgeSet(graph) :
          /\ \A i \in 1..Len(e.type) : ~IsLower(e.type[i]) /\ e.type[i] # " "
          /\ \E text \in Texts :
                \E rel \in Range(extract_graph_data(text).relationships) :
                    e.type = str_replace(str_upper(rel.type))
    /\ (/\ ingest_pc = "done"
        /\ documents = <<"T1">>
        /\ seglog[1].status = "ok")
          => graph = [nodes |-> <<Node(Alice, "Person"),
                                  Node(Acme, "Organization")>>,
                      edges |-> <<[source |-> Alice, target |-> Acme,
                                   type |-> WORKS_FOR, description |-> ""]>>]

\* the example segment was ingested and its edge is in the store
C9_WorksForStored ==
    /\ ingest_pc = "done"
    /\ documents = <<"T1">>
    /\ Len(graph.nodes) = 2
    /\ Len(graph.edges) = 1
    /\ graph.edges[1].type = WORKS_FOR


Bijections(n) ==
    {f \in [1..n -> 1..n] : \A i, j \in 1..n : f[i] = f[j] => i = j}
Reorderings(docs) ==
    {[i \in 1..Len(docs) |-> docs[f[i]]] : f \in Bijections(Len(docs))}

\* C16 as claimed: after a fault-free ingest, ingesting the segments in any
\* other order from the same initial store gives the same nodes and edges.
C16_OrderIrrelevant ==
    (ingest_pc = "done" /\ AllOk)
       => \A p \in Reorderings(documents) :
             /\ NodeSet(IngestAll(p)) = NodeSet(graph)
             /\ EdgeSet(IngestAll(p)) = EdgeSet(graph)

\* C16 as amended: after a fault-free ingest, ingesting the segments in any
\* other order from the same initial store gives the same set of node ids.
C16_NodeIdsOrderIrrelevant ==
    (ingest_pc = "done" /\ AllOk)
       => \A p \in Reorderings(documents) :
             NodeIdSet(IngestAll(p)) = NodeIdSet(graph)

\* a fault-free ingest of three segments whose reversal gives other node
\* types and other edges
C16_OrderChangesResult ==
    /\ ingest_pc = "done"
    /\ AllOk
    /\ documents = <<"T3", "T1", "T2">>
    /\ NodeSet(IngestAll(<<"T2", "T1", "T3">>)) # NodeSet(graph)
    /\ EdgeTripleSet(IngestAll(<<"T2", "T1", "T3">>)) # EdgeTripleSet(graph)
    /\ NodeIdSet(graph) = {Alice, Acme}

\* the edge queries of all segments, as the code would issue them
AllEdgeQueries ==
    UNION {Range(RelQueries(extract_graph_data(text))) : text \in Texts}

\* C19: every stored edge has both endpoints among the stored nodes; an edge
\* query whose source or target is not the id of a stored node leaves the
\* store as it is, and a segment holding such a relationship is not failed
\* by it.
C19_EdgesHaveStoredEndpoints ==
    LET ids == NodeIdSet(graph)
    IN  /\ \A e \in EdgeSet(graph) : e.source \in ids /\ e.target \in ids
        /\ \A q \in AllEdgeQueries :
              ((q.source \notin ids \/ q.target \notin ids)
                  /\ ValidLabel(q.label))
                 => RunQueries(graph, <<q>>, 1, NoFault)
                       = [graph |-> graph, status |-> "ok", ran |-> 1]

\* a segment naming an endpoint that is no stored node went through: both
\* its queries ran, and no edge was written
C19_MissingEndpointNoEdge ==
    /\ ingest_pc = "done"
    /\ documents = <<"T3">>
    /\ seglog[1] = [status |-> "ok", ran |-> 2]
    /\ Len(graph.nodes) = 1
    /\ graph.edges = <<>>

(***************************************************************************)
(* Retrieval properties.  rag_context is None or Some(Fused(v, g)): the    *)
(* vector section is rag_context[1][2], the graph section rag_context[1][4]. *)
(***************************************************************************)

\* C12: when the traversal query fails, get_graph_context returns the empty
\* string instead of raising, and hybrid_retrieval still returns the fused
\* context, with the vector passages and an empty graph section.
C12_StoreFailureKeepsVectorContext ==
    (rag_call.vector = "ok" /\ rag_call.entity = "ok"
        /\ rag_call.store = "raised")
      => /\ rag_pc = "returned"
         /\ rag_call.lines = <<>>
         /\ rag_context = Some(Fused(join(rag_call.passages), <<>>))

C12_StoreFailedWithPassages ==
    /\ rag_pc = "returned"
    /\ rag_call.store = "raised"
    /\ Len(rag_call.passages) = 2
    /\ graph.edges # <<>>
    /\ rag_context[1][2] = <<"p", "1", "\n", "p", "2">>

\* C13 (as stated): when the similarity search of the vector store fails,
\* hybrid_retrieval still returns a fused context, with an empty vector
\* section.
C13_VectorFailureDegrades ==
    rag_call.vector = "raised"
      => /\ rag_pc = "returned"
         /\ rag_context # None
         /\ rag_context[1][2] = <<>>

\* C14 (as stated): when entity resolution yields the empty string, the graph
\* context is empty, whatever the store holds.
C14_EmptyEntityEmptyGraphContext ==
    (rag_pc = "returned" /\ rag_call.store = "ok" /\ rag_call.focus = <<>>)
      => rag_context[1][4] = <<>>

\* C15: whatever rows the traversal returns, rows repeating a relationship
\* that lies on several paths included, every distinct fact line is in the
\* graph context exactly once, and nothing else is.
C15_FactsOnce ==
    (rag_pc = "returned" /\ rag_call.store = "ok")
      => LET rows == TraversalRows(graph, rag_call.focus)
             facts == {Fact(graph, row) : row \in rows}
             lines == rag_call.lines
         IN  /\ rag_call.nrows = Cardinality(rows)
             /\ \A line \in facts :
                   Cardinality({i \in 1..Len(lines) : lines[i] = line}) = 1
             /\ \A i \in 1..Len(lines) : lines[i] \in facts
             /\ rag_context[1][4] = join(lines)

C15_RepeatedRows ==
    /\ rag_pc = "returned"
    /\ rag_call.store = "ok"
    /\ Len(rag_call.lines) = 2
    /\ rag_call.nrows > 2

AliceWorksForAcme ==
    <<"A", "l", "i", "c", "e", " ", "W", "O", "R", "K", "S", "_", "F", "O",
      "R", " ", "A", "c", "m", "e">>

\* C18: every relationship within two hops, in either direction, of a node
\* whose id contains the focus entity (case-insensitively) is rendered as
\* "<source> <type> <target>" with the stored edge's own source and target,
\* and nothing else is rendered; a store holding only Alice WORKS_FOR Acme
\* queried with focus "Acme" gives exactly "Alice WORKS_FOR Acme".
C18_StoredDirectionFacts ==
    (rag_pc = "returned" /\ rag_call.store = "ok")
      => LET focus == rag_call.focus
             lines == rag_call.lines
             nodes == {graph.nodes[i] : i \in 1..Len(graph.nodes)}
             edges == {graph.edges[i] : i \in 1..Len(graph.edges)}
             starts == {n.id : n \in
                          {m \in nodes :
                              Contains(str_lower(m.id), str_lower(focus))}}
             near == starts \cup
                       {e.source : e \in {x \in edges : x.target \in starts}}
                       \cup
                       {e.target : e \in {x \in edges : x.source \in starts}}
             rels == {e \in edges : e.source \in near \/ e.target \in near}
             plain(e) == e.source \o <<" ">> \o e.type \o <<" ">> \o e.target
             bare(id) == \A n \in nodes : n.id = id => DOMAIN n = {"id", "type"}
             renders(line, e) ==
                 /\ Len(line) >= Len(plain(e))
                 /\ SubSeq(line, 1, Len(plain(e))) = plain(e)
                 /\ bare(e.target) => line = plain(e)
         IN  /\ \A e \in rels : \E i \in 1..Len(lines) : renders(lines[i], e)
             /\ \A i \in 1..Len(lines) : \E e \in rels : renders(lines[i], e)
             /\ (/\ focus = Acme
                 /\ Len(graph.edges) = 1
                 /\ graph.edges[1].source = Alice
                 /\ graph.edges[1].type = WORKS_FOR
                 /\ graph.edges[1].target = Acme
                 /\ bare(Alice) /\ bare(Acme))
                  => rag_context[1][4] = AliceWorksForAcme

C18_AcmeExample ==
    /\ rag_pc = "returned"
    /\ rag_call.store = "ok"
    /\ rag_call.focus = Acme
    /\ graph = [nodes |-> <<Node(Alice, "Person"), Node(Acme, "Organization")>>,
                edges |-> <<[source |-> Alice, target |-> Acme,
                             type |-> WORKS_FOR, description |-> ""]>>]
    /\ rag_context[1][4] = AliceWorksForAcme


(***************************************************************************)
(* Partial segments.                                                       *)
(***************************************************************************)

\* the store after the first n queries of qs ran on g, in order
RECURSIVE ApplyPrefix(_, _, _)
ApplyPrefix(g, qs, n) ==
    IF n = 0 THEN g
    ELSE RunQuery(ApplyPrefix(g, qs, n - 1), qs[n])

\* C22: when a graph-store write fails part-way through a segment, what the
\* segment wrote before the fault stays in the store, the rest of the
\* segment is not written, the segment is not tried again, and the loop goes
\* on with the next segment.
C22_PartialSegmentKept ==
    [][(ingest_pc = "loop" /\ seg < Len(documents) /\ seglog' # seglog
          /\ seglog'[Len(seglog')].status = "store_failed")
         => LET qs == SegmentQueries(extract_graph_data(documents[seg + 1]))
                n == seglog'[Len(seglog')].ran
            IN  /\ n < Len(qs)
                /\ graph' = ApplyPrefix(graph, qs, n)
                /\ seg' = seg + 1
                /\ Len(seglog') = seg'
                /\ ingest_pc' = "loop"]_vars

\* the store failed on the second query of segment 1: Alice stays, Acme as an
\* Organization and the WORKS_FOR edge were never written, and segment 2
\* was ingested
C22_FaultAfterFirstNode ==
    /\ ingest_pc = "done"
    /\ documents = <<"T1", "T3">>
    /\ seglog = <<[status |-> "store_failed", ran |-> 1],
                  [status |-> "ok", ran |-> 2]>>
    /\ graph.nodes = <<Node(Alice, "Person"), Node(Acme, "Company")>>
    /\ Len(graph.edges) = 1
    /\ graph.edges[1].source = Acme

=============================================================================
